---- MODULE Spec2Model ----
(***************************************************************************)
(* A model of pubmed_bib.py: the record-to-BibTeX transformation           *)
(* format_reference and the command-line handlers around it                *)
(* (show_reference, save_reference, convert_references, pubMed2BibTex).    *)
(*                                                                         *)
(* Text is a sequence of tokens.  A token is one character, except that a  *)
(* whole markup tag ("<sub>", "</sub>", "<sup>", "</sup>") and a whole     *)
(* word that the code never looks into ("Nature", "10.1/x") is one token.  *)
(* A raised Python exception is a result whose status names its class.     *)
(***************************************************************************)
EXTENDS Naturals, Sequences, FiniteSets

VARIABLES
    pc,             \* where the current call or process stands
    reference,      \* the record handed to format_reference / the last lookup response
    use_short,      \* the formatting preference of the call
    result,         \* what format_reference gave: [status, entry]
    db,             \* the remote database: identifier -> response
    outFile,        \* contents of the output file: the chunks written, in order
    console,        \* what the current process has printed
    err,            \* the exception that ended the process ("" if none)
    cmd,            \* the handler the last process ran
    formatCalls,    \* number of calls of format_reference so far
    inFile,         \* lines of the input file of the batch
    pos,            \* index of the next line of the batch
    successNumber,  \* convert_references' tally of retrieved references
    failNumber,     \* convert_references' tally of references not found
    lookedUp,       \* identifiers handed to get_reference by the batch
    runs            \* processes started so far

vars == <<pc, reference, use_short, result, db, outFile, console, err, cmd,
          formatCalls, inFile, pos, successNumber, failNumber, lookedUp, runs>>

----------------------------------------------------------------------------
(* Bounds *)

MaxTitleLen == 4
MaxMarkupLen == 6
MaxPlainLen == 5
MaxAuthors == 2
MaxBatch == 2
MaxRuns == 2

----------------------------------------------------------------------------
(* Characters *)

Uppers == <<"A","B","C","D","E","F","G","H","I","J","K","L","M",
            "N","O","P","Q","R","S","T","U","V","W","X","Y","Z">>
Lowers == <<"a","b","c","d","e","f","g","h","i","j","k","l","m",
            "n","o","p","q","r","s","t","u","v","w","x","y","z">>

IsUpper(c) == \E i \in 1..26 : Uppers[i] = c
IsLower(c) == \E i \in 1..26 : Lowers[i] = c
IsCased(c) == IsUpper(c) \/ IsLower(c)

ToUpper(c) == IF IsLower(c) THEN Uppers[CHOOSE i \in 1..26 : Lowers[i] = c] ELSE c
ToLower(c) == IF IsUpper(c) THEN Lowers[CHOOSE i \in 1..26 : Uppers[i] = c] ELSE c

Max(S) == CHOOSE m \in S : \A x \in S : x <= m

\* the sequences over S of length at most n
SeqUpTo(S, n) == UNION {[1..k -> S] : k \in 0..n}

----------------------------------------------------------------------------
(* str.title(): a cased character is upper-cased when the character before *)
(* it is not cased, and lower-cased when it is.                            *)

RECURSIVE TitleFrom(_, _, _)
TitleFrom(s, i, prevCased) ==
    IF i > Len(s) THEN <<>>
    ELSE <<IF prevCased THEN ToLower(s[i]) ELSE ToUpper(s[i])>>
         \o TitleFrom(s, i + 1, IsCased(s[i]))

title(s) == TitleFrom(s, 1, FALSE)

(* str(year) for a non-negative integer: its decimal digits. *)
DigitChars == <<"0","1","2","3","4","5","6","7","8","9">>

RECURSIVE str(_)
str(n) == IF n < 10 THEN <<DigitChars[n + 1]>>
          ELSE str(n \div 10) \o <<DigitChars[(n % 10) + 1]>>

----------------------------------------------------------------------------
(* re.sub("<sub>(.+)</sub>", "$_{\\1}$", title): leftmost matches, not      *)
(* overlapping.  ".+" is greedy, so a match that starts at an opening tag   *)
(* runs to the LAST closing tag reachable over one or more tokens none of   *)
(* which is a line break ("." does not match "\n").                         *)

MatchEnds(t, i, close) ==
    {j \in (i + 2)..Len(t) : t[j] = close /\ \A k \in (i + 1)..(j - 1) : t[k] # "\n"}

RECURSIVE SubTagFrom(_, _, _, _, _)
SubTagFrom(t, i, open, close, mark) ==
    IF i > Len(t) THEN <<>>
    ELSE IF t[i] = open /\ MatchEnds(t, i, close) # {}
         THEN LET j == Max(MatchEnds(t, i, close))
              IN <<"$", mark, "{">> \o SubSeq(t, i + 1, j - 1) \o <<"}", "$">>
                 \o SubTagFrom(t, j + 1, open, close, mark)
         ELSE <<t[i]>> \o SubTagFrom(t, i + 1, open, close, mark)

SubTag(t, open, close, mark) == SubTagFrom(t, 1, open, close, mark)

(* re.sub("([A-Z]+)", "{\\1}", title): each leftmost longest run of         *)
(* uppercase ASCII letters is put between braces.                          *)

\* as the pattern "([A-Z])" would: every capital on its own
RECURSIVE WrapEachCap(_)
WrapEachCap(t) ==
    IF t = <<>> THEN <<>>
    ELSE (IF \E i \in 1..26 : Uppers[i] = Head(t)
          THEN <<"{", Head(t), "}">> ELSE <<Head(t)>>) \o WrapEachCap(Tail(t))

RunEnd(t, i) == Max({j \in i..Len(t) : \A k \in i..j : IsUpper(t[k])})

RECURSIVE WrapCapsFrom(_, _)
WrapCapsFrom(t, i) ==
    IF i > Len(t) THEN <<>>
    ELSE IF IsUpper(t[i])
         THEN <<"{">> \o SubSeq(t, i, RunEnd(t, i)) \o <<"}">>
              \o WrapCapsFrom(t, RunEnd(t, i) + 1)
         ELSE <<t[i]>> \o WrapCapsFrom(t, i + 1)

WrapCaps(t) == WrapCapsFrom(t, 1)

sanitize_title(t) ==
    WrapCaps(SubTag(SubTag(t, "<sub>", "</sub>", "_"), "<sup>", "</sup>", "^"))

----------------------------------------------------------------------------
(* The author list *)

\* as appending a placeholder for an author with no name part would
render_author_placeholder(a) ==
    IF "family" \in a.keys /\ "given" \in a.keys
    THEN <<a.family \o <<",", " ">> \o a.given>>
    ELSE IF "family" \in a.keys THEN <<a.family>>
    ELSE IF "given" \in a.keys THEN <<a.given>>
    ELSE << <<>> >>

render_author(a) ==
    IF "family" \in a.keys /\ "given" \in a.keys
    THEN <<a.family \o <<",", " ">> \o a.given>>
    ELSE IF "family" \in a.keys THEN <<a.family>>
    ELSE IF "given" \in a.keys THEN <<a.given>>
    ELSE <<>>

RECURSIVE author_list(_)
author_list(authors) ==
    IF authors = <<>> THEN <<>>
    ELSE render_author(Head(authors)) \o author_list(Tail(authors))

\* sep.join(parts)
RECURSIVE join(_, _)
join(sep, parts) ==
    IF parts = <<>> THEN <<>>
    ELSE IF Len(parts) = 1 THEN parts[1]
    ELSE parts[1] \o sep \o join(sep, Tail(parts))

and_sep == <<" and ">>

----------------------------------------------------------------------------
(* format_reference *)

\* reference.get(k) or '' ; reference[k] if k in reference.keys() else ''
field(r, k, v) == IF k \in r.keys THEN v ELSE <<>>

\* as labelling the two lines without looking at the preference would
journal_labels_fixed(short) == <<"journal", "journal-short">>

journal_labels(short) ==
    IF short THEN <<"journal-long", "journal">> ELSE <<"journal", "journal-short">>

assemble(ref_id, ttl, authorList, jl, js, volume, page, year, doi, short) ==
    << <<"@article", ref_id>>,
       <<"title", ttl>>,
       <<"author", join(and_sep, authorList)>>,
       <<journal_labels(short)[1], jl>>,
       <<journal_labels(short)[2], js>>,
       <<"volume", volume>>,
       <<"pages", page>>,
       <<"year", str(year)>>,
       <<"doi", doi>> >>

Raise(e) == [status |-> e, entry |-> <<>>]
Return(x) == [status |-> "ok", entry |-> x]

HasYear(r) == "issued" \in r.keys \/ "epub-date" \in r.keys
year_of(r) == IF "issued" \in r.keys THEN r.issued ELSE r.epub

\* Line 53 indexes authors[0] first (IndexError on an empty or absent author
\* list); line 55 evaluates str(year) next (UnboundLocalError when neither
\* date was present) and then adds it to ref_id, which is the author dict
\* itself when the first author has no family name (TypeError: dict += str).
format_reference(r, short) ==
    LET authors == IF "author" \in r.keys THEN r.author ELSE <<>>
    IN  IF authors = <<>> THEN Raise("IndexError")
        ELSE IF ~HasYear(r) THEN Raise("UnboundLocalError")
        ELSE IF "family" \notin authors[1].keys THEN Raise("TypeError")
        ELSE Return(assemble(title(authors[1].family) \o str(year_of(r)),
                             sanitize_title(field(r, "title", r.title)),
                             author_list(authors),
                             field(r, "container-title", r.long),
                             field(r, "container-title-short", r.short),
                             field(r, "volume", r.volume),
                             field(r, "page", r.page),
                             year_of(r),
                             field(r, "DOI", r.doi),
                             short))

----------------------------------------------------------------------------
(* Inputs *)

Author(keys, family, given) == [keys |-> keys, family |-> family, given |-> given]

FamilyNames == {<<"l","e","e">>, <<"M","c"," ","k">>}
GivenNames == {<<"a","l">>}

Authors ==
    {Author({}, <<>>, <<>>)}
    \cup {Author({"family"}, f, <<>>) : f \in FamilyNames}
    \cup {Author({"given"}, <<>>, g) : g \in GivenNames}
    \cup {Author({"family", "given"}, f, g) : f \in FamilyNames, g \in GivenNames}

Lee == Author({"family", "given"}, <<"l","e","e">>, <<"a","l">>)

\* a response of the lookup: the keys present, and the value of each
Rec(keys, ttl, author, issued, epub) ==
    [keys |-> keys,
     status |-> IF "status" \in keys THEN "error" ELSE "",
     title |-> IF "title" \in keys THEN ttl ELSE <<>>,
     author |-> IF "author" \in keys THEN author ELSE <<>>,
     long |-> IF "container-title" \in keys THEN <<"Nature">> ELSE <<>>,
     short |-> IF "container-title-short" \in keys THEN <<"Nat">> ELSE <<>>,
     volume |-> IF "volume" \in keys THEN <<"7">> ELSE <<>>,
     page |-> IF "page" \in keys THEN <<"1","-","9">> ELSE <<>>,
     doi |-> IF "DOI" \in keys THEN <<"10.1/x">> ELSE <<>>,
     issued |-> IF "issued" \in keys THEN issued ELSE 0,
     epub |-> IF "epub-date" \in keys THEN epub ELSE 0]

NotFound == Rec({"status"}, <<>>, <<>>, 0, 0)

\* Titles: every short title over all the tokens, longer ones over the tags
\* and a letter (two pairs of tags take six tokens), and longer ones with no
\* tag at all (runs of capitals, a literal brace).
Tags == {"<sub>", "</sub>", "<sup>", "</sup>"}
TitleTokens == Tags \cup {"N", "o", "\n"}
MarkupTokens == Tags \cup {"o"}
PlainTokens == {"N", "A", "o", "{"}
Titles ==
    SeqUpTo(TitleTokens, MaxTitleLen)
    \cup SeqUpTo(MarkupTokens, MaxMarkupLen)
    \cup SeqUpTo(PlainTokens, MaxPlainLen)

TitleRecords ==
    {Rec({"title", "author", "issued"}, t, <<Lee>>, 2019, 0) : t \in Titles}

OptionalKeys == {"author", "container-title", "container-title-short",
                 "volume", "page", "DOI", "issued", "epub-date"}

FieldRecords ==
    {Rec({"title"} \cup ks, <<"N","o">>, a, 2019, 2020) :
        ks \in SUBSET OptionalKeys, a \in SeqUpTo(Authors, MaxAuthors)}

----------------------------------------------------------------------------
(* format_reference alone: the record and the preference are the inputs.   *)

Idle ==
    /\ db = <<>>
    /\ outFile = <<>>
    /\ console = <<>>
    /\ err = ""
    /\ cmd = "format"
    /\ formatCalls = 0
    /\ inFile = <<>>
    /\ pos = 1
    /\ successNumber = 0
    /\ failNumber = 0
    /\ lookedUp = <<>>
    /\ runs = 0

InitTitle ==
    /\ pc = "input"
    /\ reference \in TitleRecords
    /\ use_short \in BOOLEAN
    /\ result = Raise("")
    /\ Idle

InitFields ==
    /\ pc = "input"
    /\ reference \in FieldRecords
    /\ use_short \in BOOLEAN
    /\ result = Raise("")
    /\ Idle

FormatCall ==
    /\ pc = "input"
    /\ result' = format_reference(reference, use_short)
    /\ pc' = IF result'.status = "ok" THEN "returned" ELSE "raised"
    /\ formatCalls' = formatCalls + 1
    /\ UNCHANGED <<reference, use_short, db, outFile, console, err, cmd,
                   inFile, pos, successNumber, failNumber, lookedUp, runs>>

SpecTitle == InitTitle /\ [][FormatCall]_vars
SpecFields == InitFields /\ [][FormatCall]_vars

----------------------------------------------------------------------------
(* The command line: each action is one run of the program.  The output    *)
(* file and the database outlive a run; the console is the run's own.      *)

None == <<>>
Lines == {<<"7", "\n">>, <<"8", " ", "\n">>}
Whitespace == {" ", "\n", "\t", "\r"}

\* str.rstrip()
RECURSIVE rstrip(_)
rstrip(s) ==
    IF s # <<>> /\ s[Len(s)] \in Whitespace THEN rstrip(SubSeq(s, 1, Len(s) - 1))
    ELSE s

Ids == {rstrip(l) : l \in Lines}

Responses ==
    {NotFound,
     Rec({"title", "author", "container-title", "issued"}, <<"N","o">>, <<Lee>>, 2019, 0),
     Rec({"title", "author"}, <<"N","o">>, <<Lee>>, 0, 0),
     Rec({"title", "epub-date"}, <<"N","o">>, <<>>, 0, 2020),
     Rec({"title", "author", "issued"}, <<"N","o">>, <<Author({"given"}, <<>>, <<"a","l">>)>>, 2019, 0)}

\* what the file held before the program ran
OldChunk == << <<"@article", <<"Old1999">> >> >>

Text(tokens) == << <<"text", tokens>> >>
NotFoundMessage == Text(<<"Reference not found">>)

get_reference(id) == <<id, db[id]>>

\* 'status' in response.keys() and response['status'] == 'error'
is_error(response) == "status" \in response.keys /\ response.status = "error"

Ready == pc \in {"idle", "done", "crashed"} /\ runs < MaxRuns

show_reference(id, short) ==
    LET ref == get_reference(id)
        out == format_reference(ref[2], short)
    IN  /\ reference' = ref[2]
        /\ use_short' = short
        /\ cmd' = "show"
        /\ IF is_error(ref[2])
           THEN /\ console' = <<NotFoundMessage>>
                /\ pc' = "done" /\ err' = ""
                /\ UNCHANGED <<result, formatCalls>>
           ELSE /\ result' = out
                /\ formatCalls' = formatCalls + 1
                /\ IF out.status = "ok"
                   THEN console' = <<out.entry>> /\ pc' = "done" /\ err' = ""
                   ELSE console' = <<>> /\ pc' = "crashed" /\ err' = out.status
        /\ UNCHANGED <<db, outFile, inFile, pos, successNumber, failNumber, lookedUp>>

\* as opening the file with mode "w" instead of "a" would
save_reference_truncating(id, short) ==
    LET ref == get_reference(id)
        out == format_reference(ref[2], short)
    IN  /\ reference' = ref[2]
        /\ use_short' = short
        /\ cmd' = "save"
        /\ IF is_error(ref[2])
           THEN /\ console' = <<NotFoundMessage>>
                /\ pc' = "done" /\ err' = ""
                /\ UNCHANGED <<result, formatCalls, outFile>>
           ELSE /\ result' = out
                /\ formatCalls' = formatCalls + 1
                /\ console' = <<>>
                /\ IF out.status = "ok"
                   THEN outFile' = <<out.entry>> /\ pc' = "done" /\ err' = ""
                   ELSE outFile' = <<>> /\ pc' = "crashed" /\ err' = out.status
        /\ UNCHANGED <<db, inFile, pos, successNumber, failNumber, lookedUp>>

\* open(path, "a") keeps what the file holds; f.write adds the entry after it
save_reference(id, short) ==
    LET ref == get_reference(id)
        out == format_reference(ref[2], short)
    IN  /\ reference' = ref[2]
        /\ use_short' = short
        /\ cmd' = "save"
        /\ IF is_error(ref[2])
           THEN /\ console' = <<NotFoundMessage>>
                /\ pc' = "done" /\ err' = ""
                /\ UNCHANGED <<result, formatCalls, outFile>>
           ELSE /\ result' = out
                /\ formatCalls' = formatCalls + 1
                /\ console' = <<>>
                /\ IF out.status = "ok"
                   THEN outFile' = Append(outFile, out.entry) /\ pc' = "done" /\ err' = ""
                   ELSE outFile' = outFile /\ pc' = "crashed" /\ err' = out.status
        /\ UNCHANGED <<db, inFile, pos, successNumber, failNumber, lookedUp>>

\* pubMed2BibTex calls convert_references(input_file, output_file,
\* short_journal); convert_references takes two arguments: TypeError before
\* any file is opened.
convert_dispatch(short) ==
    /\ use_short' = short
    /\ cmd' = "batch"
    /\ pc' = "crashed" /\ err' = "TypeError"
    /\ console' = <<>>
    /\ UNCHANGED <<reference, result, db, outFile, formatCalls, inFile, pos,
                   successNumber, failNumber, lookedUp>>

no_op ==
    /\ cmd' = "none"
    /\ pc' = "done" /\ err' = ""
    /\ console' = <<>>
    /\ UNCHANGED <<reference, use_short, result, db, outFile, formatCalls, inFile,
                   pos, successNumber, failNumber, lookedUp>>

pubMed2BibTex(id, input_file, output_file, short_journal) ==
    /\ Ready
    /\ runs' = runs + 1
    /\ \/ id # None /\ output_file /\ save_reference(id, short_journal)
       \/ id # None /\ ~output_file /\ show_reference(id, short_journal)
       \/ id = None /\ input_file /\ output_file /\ convert_dispatch(short_journal)
       \/ id = None /\ ~(input_file /\ output_file) /\ no_op

\* convert_references(input_file, output_file) called with its own two
\* arguments: the tallies start at 0 and open(output_file, 'w') empties the
\* output file.
convert_references ==
    /\ Ready
    /\ runs' = runs + 1
    /\ cmd' = "convert"
    /\ pc' = "convert" /\ err' = ""
    /\ console' = <<>>
    /\ outFile' = <<>>
    /\ pos' = 1
    /\ successNumber' = 0
    /\ failNumber' = 0
    /\ lookedUp' = <<>>
    /\ UNCHANGED <<reference, use_short, result, db, formatCalls, inFile>>

\* One turn of the loop.  get_reference returns the pair (id, response), and
\* line 109 asks the pair for .keys(): AttributeError on the first line read,
\* so lines 110 to 115 (the tallies, format_reference, oh.write) never run.
convert_line ==
    /\ pc = "convert"
    /\ pos <= Len(inFile)
    /\ LET ref == get_reference(rstrip(inFile[pos]))
       IN  /\ reference' = ref[2]
           /\ lookedUp' = Append(lookedUp, ref[1])
    /\ pc' = "crashed" /\ err' = "AttributeError"
    /\ UNCHANGED <<use_short, result, db, outFile, console, cmd, formatCalls,
                   inFile, pos, successNumber, failNumber, runs>>

plural(n) == IF n > 1 THEN <<"s">> ELSE <<>>

summary(ok, failed) ==
    Text(str(ok) \o <<" reference">> \o plural(ok) \o <<" retrieved.\n">>
         \o str(failed) \o <<" reference">> \o plural(failed) \o <<" not found.">>)

\* the input is exhausted: the two tallies are printed
convert_report ==
    /\ pc = "convert"
    /\ pos > Len(inFile)
    /\ console' = Append(console, summary(successNumber, failNumber))
    /\ pc' = "done"
    /\ UNCHANGED <<reference, use_short, result, db, outFile, err, cmd, formatCalls,
                   inFile, pos, successNumber, failNumber, lookedUp, runs>>

Init ==
    /\ pc = "idle"
    /\ reference = NotFound
    /\ use_short = FALSE
    /\ result = Raise("")
    /\ db \in [Ids -> Responses]
    /\ outFile \in {<<>>, <<OldChunk>>}
    /\ console = <<>>
    /\ err = ""
    /\ cmd = "none"
    /\ formatCalls = 0
    /\ inFile \in SeqUpTo(Lines, MaxBatch)
    /\ pos = 1
    /\ successNumber = 0
    /\ failNumber = 0
    /\ lookedUp = <<>>
    /\ runs = 0

Next ==
    \/ \E id \in Ids \cup {None}, input_file \in BOOLEAN, output_file \in BOOLEAN,
          short_journal \in BOOLEAN :
          pubMed2BibTex(id, input_file, output_file, short_journal)
    \/ convert_references
    \/ convert_line
    \/ convert_report

Spec == Init /\ [][Next]_vars

----------------------------------------------------------------------------
(* Properties of format_reference *)

Returned == pc = "returned"
Called == pc \in {"returned", "raised"}
Line(n) == result.entry[n]
AuthorsOf(r) == IF "author" \in r.keys THEN r.author ELSE <<>>
HasName(a) == "family" \in a.keys \/ "given" \in a.keys

\* C1: a record with neither `issued` nor `epub-date` makes format_reference
\* fail with the classified MissingYearError, whatever its other fields.
C1_MissingYearError ==
    (Called /\ ~HasYear(reference)) => result.status = "MissingYearError"

\* C2: a record with a year and an empty or absent author sequence is
\* formatted without an exception, and its author field is the empty string.
C2_EmptyAuthorsFormatted ==
    (Called /\ HasYear(reference) /\ AuthorsOf(reference) = <<>>)
        => (result.status = "ok" /\ Line(3) = <<"author", <<>> >>)

\* C7: the entry key comes from the first author: the family name title-cased
\* when there is one, else the given name unchanged, followed by the digits
\* of the year; and the entry is returned with that key.
C7_EntryKey ==
    (Called /\ HasYear(reference) /\ AuthorsOf(reference) # <<>>
            /\ HasName(AuthorsOf(reference)[1]))
        => LET first == AuthorsOf(reference)[1]
               name == IF "family" \in first.keys
                       THEN title(first.family) ELSE first.given
           IN  /\ result.status = "ok"
               /\ Line(1) = <<"@article", name \o str(year_of(reference))>>

\* the parts of a text between its " and " separators
RECURSIVE SplitAnd(_, _)
SplitAnd(s, part) ==
    IF s = <<>> THEN <<part>>
    ELSE IF Head(s) = " and " THEN <<part>> \o SplitAnd(Tail(s), <<>>)
    ELSE SplitAnd(Tail(s), Append(part, Head(s)))

Rendering(a) ==
    CASE "family" \in a.keys /\ "given" \in a.keys -> a.family \o <<",", " ">> \o a.given
      [] "family" \in a.keys /\ "given" \notin a.keys -> a.family
      [] OTHER -> a.given

\* C8: the author field is the authors that have a name part, in input order,
\* each rendered "family, given", "family" or "given", with one " and "
\* between neighbours: an author with no name part adds nothing.
C8_AuthorField ==
    Returned =>
        LET named == SelectSeq(AuthorsOf(reference), HasName)
            parts == SplitAnd(Line(3)[2], <<>>)
        IN  /\ Line(3)[1] = "author"
            /\ Len(parts) = Len(named)
            /\ \A i \in 1..Len(named) : parts[i] = Rendering(named[i])
            /\ Cardinality({i \in 1..Len(Line(3)[2]) : Line(3)[2][i] = " and "})
                 = Len(named) - 1

C8_Witness ==
    /\ Returned
    /\ Len(AuthorsOf(reference)) = 2
    /\ ~HasName(AuthorsOf(reference)[2])
    /\ Line(3)[2] = AuthorsOf(reference)[1].family

\* C6: the entries for preferShortJournal false and true differ only in the
\* labels of the two journal lines: line 4 carries the long-form value
\* (labelled journal / journal-long), line 5 the short-form value (labelled
\* journal-short / journal), and every other line is the same.
C6_JournalLabelsSwap ==
    Returned =>
        LET other == format_reference(reference, ~use_short).entry
        IN  /\ \A n \in (1..9) \ {4, 5} : Line(n) = other[n]
            /\ Line(4)[2] = field(reference, "container-title", reference.long)
            /\ Line(5)[2] = field(reference, "container-title-short", reference.short)
            /\ other[4][2] = Line(4)[2]
            /\ other[5][2] = Line(5)[2]
            /\ Line(4)[1] = (IF use_short THEN "journal-long" ELSE "journal")
            /\ Line(5)[1] = (IF use_short THEN "journal" ELSE "journal-short")
            /\ other[4][1] = (IF use_short THEN "journal" ELSE "journal-long")
            /\ other[5][1] = (IF use_short THEN "journal-short" ELSE "journal")

C6_Witness ==
    /\ Returned
    /\ use_short
    /\ {"container-title", "container-title-short"} \subseteq reference.keys
    /\ Line(4) = <<"journal-long", <<"Nature">> >>
    /\ Line(5) = <<"journal", <<"Nat">> >>

----------------------------------------------------------------------------
(* Properties of the title *)

Positions(t) == [i \in 1..Len(t) |-> i]
TagPositions(t) == SelectSeq(Positions(t), LAMBDA i : t[i] \in Tags)
CloseOf(open) == IF open = "<sub>" THEN "</sub>" ELSE "</sup>"

\* the tags of t come in pairs, each an opening tag, some text, its closing tag
WellPaired(t) ==
    LET P == TagPositions(t)
    IN  /\ Len(P) % 2 = 0
        /\ \A k \in 1..Len(P) :
             k % 2 = 1 =>
               /\ t[P[k]] \in {"<sub>", "<sup>"}
               /\ t[P[k + 1]] = CloseOf(t[P[k]])
               /\ P[k + 1] > P[k] + 1
               /\ \A m \in (P[k] + 1)..(P[k + 1] - 1) : t[m] # "\n"

\* the substitution as claimed: X runs to the NEAREST closing tag
RECURSIVE NearestTagFrom(_, _, _, _, _)
NearestTagFrom(t, i, open, close, mark) ==
    IF i > Len(t) THEN <<>>
    ELSE IF t[i] = open /\ MatchEnds(t, i, close) # {}
         THEN LET j == CHOOSE m \in MatchEnds(t, i, close) :
                            \A x \in MatchEnds(t, i, close) : m <= x
              IN <<"$", mark, "{">> \o SubSeq(t, i + 1, j - 1) \o <<"}", "$">>
                 \o NearestTagFrom(t, j + 1, open, close, mark)
         ELSE <<t[i]>> \o NearestTagFrom(t, i + 1, open, close, mark)

\* C9: in a title with two or more tag pairs every <sub>X</sub> becomes
\* $_{X}$ and every <sup>X</sup> becomes $^{X}$, X ending at the nearest
\* closing tag, and no tag is left in the title field.
C9_NonGreedyPerPair ==
    (Returned /\ WellPaired(reference.title)
              /\ Len(TagPositions(reference.title)) >= 4)
        => /\ Line(2)[2] =
                WrapCaps(NearestTagFrom(
                    NearestTagFrom(reference.title, 1, "<sub>", "</sub>", "_"),
                    1, "<sup>", "</sup>", "^"))
           /\ \A i \in 1..Len(Line(2)[2]) : Line(2)[2][i] \notin Tags

StartsRun(t, i) == IsUpper(t[i]) /\ (i = 1 \/ ~IsUpper(t[i - 1]))
EndsRun(t, i) == IsUpper(t[i]) /\ (i = Len(t) \/ ~IsUpper(t[i + 1]))

\* t with a brace before the first and after the last letter of every
\* maximal run of capitals, from position i on
RECURSIVE Braced(_, _)
Braced(t, i) ==
    IF i > Len(t) THEN <<>>
    ELSE (IF StartsRun(t, i) THEN <<"{">> ELSE <<>>) \o <<t[i]>>
         \o (IF EndsRun(t, i) THEN <<"}">> ELSE <<>>) \o Braced(t, i + 1)

NoMarkup(t) == \A i \in 1..Len(t) : t[i] \notin Tags

\* C10: for a non-empty title with no sub/sup markup the title field is the
\* title with every maximal run of capitals inside exactly one pair of
\* braces, all other characters unchanged and in order.
C10_CapitalRunsBraced ==
    (Returned /\ reference.title # <<>> /\ NoMarkup(reference.title))
        => /\ Line(2) = <<"title", Braced(reference.title, 1)>>
           /\ Len(Line(2)[2]) = Len(reference.title)
                + 2 * Cardinality({i \in 1..Len(reference.title) :
                                      StartsRun(reference.title, i)})

C10_Witness ==
    /\ Returned
    /\ reference.title = <<"N", "A", "o", "{", "N">>
    /\ Line(2)[2] = <<"{", "N", "A", "}", "o", "{", "{", "N", "}">>

----------------------------------------------------------------------------
(* Properties of the command line *)

BatchEnded == cmd \in {"batch", "convert"} /\ pc \in {"done", "crashed"}
ResponseAt(i) == db[rstrip(inFile[i])]
FoundLines == {i \in 1..Len(inFile) : ~is_error(ResponseAt(i))}
NotFoundLines == {i \in 1..Len(inFile) : is_error(ResponseAt(i))}
FormatFails(i) == format_reference(ResponseAt(i), use_short).status # "ok"

\* C3: when a batch run ends, the success tally is the number of identifiers
\* whose lookup gave a record, the failure tally the number whose lookup
\* signalled not-found, the two add up to the number of identifiers, and the
\* output file holds exactly success-tally entries.
C3_BatchTallies ==
    BatchEnded =>
        /\ pc = "done"
        /\ successNumber = Cardinality(FoundLines)
        /\ failNumber = Cardinality(NotFoundLines)
        /\ successNumber + failNumber = Len(inFile)
        /\ Len(outFile) = successNumber

\* C4: a formatter failure on one identifier does not abort the batch: the
\* identifier counts as failed and every identifier of the input is still
\* looked up.
C4_BatchSurvivesFormatterFailure ==
    (BatchEnded /\ \E i \in FoundLines : FormatFails(i))
        => /\ pc = "done"
           /\ Len(lookedUp) = Len(inFile)
           /\ failNumber >= Cardinality({i \in FoundLines : FormatFails(i)})

SaveRun == runs' = runs + 1 /\ cmd' = "save"
ShowRun == runs' = runs + 1 /\ cmd' = "show"
AppendedOne == Len(outFile') = Len(outFile) + 1
               /\ SubSeq(outFile', 1, Len(outFile)) = outFile

\* C5 as stated: on not-found save_reference leaves the file as it was and
\* never calls format_reference, and show_reference prints the not-found
\* message; on a successful lookup save_reference appends exactly one entry
\* after the existing contents.
C5_AppendWheneverFound ==
    [][/\ SaveRun =>
            IF is_error(reference')
            THEN outFile' = outFile /\ formatCalls' = formatCalls
            ELSE AppendedOne
       /\ ShowRun =>
            (is_error(reference') =>
                console' = <<NotFoundMessage>> /\ formatCalls' = formatCalls)]_vars

\* C5, amended: as above, but the entry is appended only when
\* format_reference returns one; when it raises, the file is left as it was.
C5_AppendWhenFormatted ==
    [][/\ SaveRun =>
            IF is_error(reference')
            THEN /\ outFile' = outFile
                 /\ formatCalls' = formatCalls
                 /\ console' = <<NotFoundMessage>>
            ELSE IF format_reference(reference', use_short').status = "ok"
            THEN /\ AppendedOne
                 /\ outFile'[Len(outFile')]
                      = format_reference(reference', use_short').entry
            ELSE outFile' = outFile /\ pc' = "crashed"
       /\ ShowRun =>
            IF is_error(reference')
            THEN console' = <<NotFoundMessage>> /\ formatCalls' = formatCalls
            ELSE outFile' = outFile]_vars

C5_Witness ==
    /\ cmd = "save" /\ pc = "done"
    /\ ~is_error(reference)
    /\ Len(outFile) = 2
    /\ outFile[1] = OldChunk
    /\ outFile[2] = result.entry

====
